---- MODULE Spec2Model ----
(***************************************************************************)
(* Diagnostic rule engine of the BBM terminal pump diagnostic (src/app.py). *)
(*                                                                         *)
(* Units.  The program computes on IEEE doubles; the model computes on     *)
(* integers.  Every integer of the model stands for a double the program   *)
(* holds exactly, so that the sums and differences of the program are      *)
(* exact, and a quotient of the program is compared with a literal by      *)
(* cross-multiplication (a correctly rounded quotient of two exact doubles *)
(* is below, at or above the double of a literal exactly as the rational   *)
(* quotient is below, at or above the literal):                            *)
(*   h, v, a, max_value, sum_value   halves of mm/s   (2.0 mm/s is 4)      *)
(*   acceleration bands, total       halves of g      (3.0 g    is 6)      *)
(*   suction_p, discharge_p          quarters of bar  (0.5 bar  is 2)      *)
(*   max_velocity of the severity classifiers, which only compares it with *)
(*   the limits of a table           tenths of mm/s   (2.8 mm/s is 28)     *)
(*   temperature degrees Celsius, voltage volts, current and FLA amperes,  *)
(*   head metres, speed rpm, flow m3/h: whole numbers.                     *)
(* The one place where the program rounds on such inputs is the mean of    *)
(* three phases, sum / 3; MeanError carries the direction of that          *)
(* rounding into the unbalance comparison.                                 *)
(***************************************************************************)
EXTENDS Integers, Sequences, FiniteSets

----------------------------------------------------------------------------
(* Threshold tables                                                        *)

ISO_10816_THRESHOLDS ==
    [g \in {"Group 1", "Group 2", "Group 3", "Group 4"} |->
        CASE g = "Group 1" -> [f \in {"Rigid", "Flexible"} |->
                                 IF f = "Rigid" THEN [A |-> 28, B |-> 45, C |-> 71]
                                                ELSE [A |-> 45, B |-> 71, C |-> 112]]
          [] g = "Group 2" -> [f \in {"Rigid", "Flexible"} |->
                                 IF f = "Rigid" THEN [A |-> 18, B |-> 28, C |-> 45]
                                                ELSE [A |-> 28, B |-> 45, C |-> 71]]
          [] g = "Group 3" -> [f \in {"Rigid", "Flexible"} |->
                                 IF f = "Rigid" THEN [A |-> 28, B |-> 45, C |-> 71]
                                                ELSE [A |-> 28, B |-> 45, C |-> 71]]
          [] g = "Group 4" -> [f \in {"Rigid", "Flexible"} |->
                                 IF f = "Rigid" THEN [A |-> 18, B |-> 45, C |-> 71]
                                                ELSE [A |-> 28, B |-> 71, C |-> 112]]]

\* tenths of mm/s, as ISO_10816_THRESHOLDS
API_610_LIMITS == [Normal |-> 30, Alert |-> 45, Trip |-> 71]

\* percent
IEC_VOLTAGE_UNBALANCE_MAX == 1
IEC_CURRENT_UNBALANCE_MAX == 10

TEMP_LIMITS == [Normal |-> 70, Warning |-> 85, Critical |-> 95, Overheat |-> 100]

\* halves of g
ACC_LIMITS == [Normal |-> 6, Warning |-> 10, Critical |-> 20]

----------------------------------------------------------------------------
(* Arithmetic helpers                                                      *)

Abs(x) == IF x < 0 THEN -x ELSE x

Max2(x, y) == IF x >= y THEN x ELSE y

\* max(h, v, a)
Max3(x, y, z) == Max2(x, Max2(y, z))

\* the elements of a list
Range(seq) == {seq[i] : i \in 1..Len(seq)}

\* n / d raises ZeroDivisionError (or yields inf/nan) exactly when d = 0
DivByZero(d) == d = 0

\* n / d > p / q   for d > 0, q > 0
RatioGT(n, d, p, q) == n * q > p * d

\* n / d < p / q   for d > 0, q > 0
RatioLT(n, d, p, q) == n * q < p * d

----------------------------------------------------------------------------
(* Severity classifier                                                     *)

\* ISO_10816_THRESHOLDS[group][foundation] raises KeyError for an unknown key
get_iso_severity(group, foundation, max_velocity) ==
    IF group \notin DOMAIN ISO_10816_THRESHOLDS
       \/ foundation \notin DOMAIN ISO_10816_THRESHOLDS[group]
    THEN [raised |-> "KeyError", zone |-> "", color |-> "", limit |-> 0,
          standard |-> <<"ISO 10816-3", group, foundation>>, level |-> ""]
    ELSE LET thresholds == ISO_10816_THRESHOLDS[group][foundation]
             std == <<"ISO 10816-3", group, foundation>>
         IN  IF max_velocity < thresholds.A
             THEN [raised |-> "", zone |-> "Zone A (Good)", color |-> "green",
                   limit |-> thresholds.A, standard |-> std, level |-> "normal"]
             ELSE IF max_velocity < thresholds.B
             THEN [raised |-> "", zone |-> "Zone B (Satisfactory)", color |-> "yellow",
                   limit |-> thresholds.B, standard |-> std, level |-> "warning"]
             ELSE IF max_velocity < thresholds.C
             THEN [raised |-> "", zone |-> "Zone C (Unsatisfactory)", color |-> "orange",
                   limit |-> thresholds.C, standard |-> std, level |-> "critical"]
             ELSE [raised |-> "", zone |-> "Zone D (Unacceptable)", color |-> "red",
                   limit |-> thresholds.C, standard |-> std, level |-> "critical"]

\* a boundary slip: the zone limits are taken as inclusive upper bounds
get_api_610_status_inclusive(max_velocity) ==
    IF max_velocity <= API_610_LIMITS.Normal
    THEN [zone |-> "Acceptable", color |-> "green",
          limit |-> API_610_LIMITS.Normal, level |-> "normal"]
    ELSE IF max_velocity <= API_610_LIMITS.Alert
    THEN [zone |-> "Alert", color |-> "yellow",
          limit |-> API_610_LIMITS.Alert, level |-> "warning"]
    ELSE IF max_velocity <= API_610_LIMITS.Trip
    THEN [zone |-> "Trip Warning", color |-> "orange",
          limit |-> API_610_LIMITS.Trip, level |-> "critical"]
    ELSE [zone |-> "Trip Required", color |-> "red",
          limit |-> API_610_LIMITS.Trip, level |-> "critical"]

\* a level slip: the Alert and Trip Warning zones carry each other's level
get_api_610_status_swapped(max_velocity) ==
    IF max_velocity < API_610_LIMITS.Normal
    THEN [zone |-> "Acceptable", color |-> "green",
          limit |-> API_610_LIMITS.Normal, level |-> "normal"]
    ELSE IF max_velocity < API_610_LIMITS.Alert
    THEN [zone |-> "Alert", color |-> "yellow",
          limit |-> API_610_LIMITS.Alert, level |-> "critical"]
    ELSE IF max_velocity < API_610_LIMITS.Trip
    THEN [zone |-> "Trip Warning", color |-> "orange",
          limit |-> API_610_LIMITS.Trip, level |-> "warning"]
    ELSE [zone |-> "Trip Required", color |-> "red",
          limit |-> API_610_LIMITS.Trip, level |-> "critical"]

get_api_610_status(max_velocity) ==
    IF max_velocity < API_610_LIMITS.Normal
    THEN [zone |-> "Acceptable", color |-> "green",
          limit |-> API_610_LIMITS.Normal, level |-> "normal"]
    ELSE IF max_velocity < API_610_LIMITS.Alert
    THEN [zone |-> "Alert", color |-> "yellow",
          limit |-> API_610_LIMITS.Alert, level |-> "warning"]
    ELSE IF max_velocity < API_610_LIMITS.Trip
    THEN [zone |-> "Trip Warning", color |-> "orange",
          limit |-> API_610_LIMITS.Trip, level |-> "critical"]
    ELSE [zone |-> "Trip Required", color |-> "red",
          limit |-> API_610_LIMITS.Trip, level |-> "critical"]

----------------------------------------------------------------------------
(* Fault pattern matcher                                                   *)

\* ratio_a > 0.5 or (a > h and a > v and a > 2.0)
MisalignmentRule(h, v, a, sum_velocity) ==
    RatioGT(a, sum_velocity, 5, 10) \/ (a > h /\ a > v /\ a > 4)

\* ratio_a < 0.3 and (ratio_v > 0.35 or ratio_h > 0.35)
UnbalanceRule(h, v, a, sum_velocity) ==
    /\ RatioLT(a, sum_velocity, 3, 10)
    /\ (RatioGT(v, sum_velocity, 35, 100) \/ RatioGT(h, sum_velocity, 35, 100))

\* v > 1.5 * h and v > 2.0
LoosenessRule(h, v) == 10 * v > 15 * h /\ v > 4

\* an ordering slip: Mechanical Looseness is tested before Unbalance
diagnose_fault_looseness_first(h, v, a, sum_velocity) ==
    IF sum_velocity = 0 THEN [fault |-> "None", raised |-> FALSE]
    ELSE IF MisalignmentRule(h, v, a, sum_velocity)
    THEN [fault |-> "Misalignment", raised |-> DivByZero(sum_velocity)]
    ELSE IF LoosenessRule(h, v)
    THEN [fault |-> "Mechanical Looseness", raised |-> DivByZero(sum_velocity)]
    ELSE IF UnbalanceRule(h, v, a, sum_velocity)
    THEN [fault |-> "Unbalance", raised |-> DivByZero(sum_velocity)]
    ELSE [fault |-> "None", raised |-> DivByZero(sum_velocity)]

\* an ordering slip: Misalignment is tested last
diagnose_fault_misalignment_last(h, v, a, sum_velocity) ==
    IF sum_velocity = 0 THEN [fault |-> "None", raised |-> FALSE]
    ELSE IF UnbalanceRule(h, v, a, sum_velocity)
    THEN [fault |-> "Unbalance", raised |-> DivByZero(sum_velocity)]
    ELSE IF LoosenessRule(h, v)
    THEN [fault |-> "Mechanical Looseness", raised |-> DivByZero(sum_velocity)]
    ELSE IF MisalignmentRule(h, v, a, sum_velocity)
    THEN [fault |-> "Misalignment", raised |-> DivByZero(sum_velocity)]
    ELSE [fault |-> "None", raised |-> DivByZero(sum_velocity)]

\* a guard slip: the sum_velocity == 0 early return is missing
diagnose_fault_unguarded(h, v, a, sum_velocity) ==
    IF MisalignmentRule(h, v, a, sum_velocity)
    THEN [fault |-> "Misalignment", raised |-> DivByZero(sum_velocity)]
    ELSE IF UnbalanceRule(h, v, a, sum_velocity)
    THEN [fault |-> "Unbalance", raised |-> DivByZero(sum_velocity)]
    ELSE IF LoosenessRule(h, v)
    THEN [fault |-> "Mechanical Looseness", raised |-> DivByZero(sum_velocity)]
    ELSE [fault |-> "None", raised |-> DivByZero(sum_velocity)]

\* fault "None" is Python's None; raised tells whether a / sum_velocity,
\* v / sum_velocity, h / sum_velocity were evaluated with sum_velocity = 0
diagnose_fault(h, v, a, sum_velocity) ==
    IF sum_velocity = 0 THEN [fault |-> "None", raised |-> FALSE]
    ELSE IF MisalignmentRule(h, v, a, sum_velocity)
    THEN [fault |-> "Misalignment", raised |-> DivByZero(sum_velocity)]
    ELSE IF UnbalanceRule(h, v, a, sum_velocity)
    THEN [fault |-> "Unbalance", raised |-> DivByZero(sum_velocity)]
    ELSE IF LoosenessRule(h, v)
    THEN [fault |-> "Mechanical Looseness", raised |-> DivByZero(sum_velocity)]
    ELSE [fault |-> "None", raised |-> DivByZero(sum_velocity)]

----------------------------------------------------------------------------
(* Temperature                                                             *)

check_temperature(temp) ==
    IF temp = 0 THEN [stat |-> "No Data", level |-> "normal"]
    ELSE IF temp < TEMP_LIMITS.Normal THEN [stat |-> "Normal", level |-> "normal"]
    ELSE IF temp < TEMP_LIMITS.Warning THEN [stat |-> "Warning", level |-> "warning"]
    ELSE IF temp < TEMP_LIMITS.Critical THEN [stat |-> "Critical", level |-> "critical"]
    ELSE [stat |-> "Overheat", level |-> "critical"]

----------------------------------------------------------------------------
(* Electrical balance.  avg = sum / 3 and max_dev = dev / 3, where sum is  *)
(* the sum of the three phases and dev the largest |3 * phase - sum|, so   *)
(* unbalance = (max_dev / avg) * 100 = 100 * dev / sum.  The double avg is *)
(* sum / 3 rounded; where 100 * dev = pct * sum that rounding decides the  *)
(* comparison, anywhere else it is far too small to change it.             *)

Sum3(x, y, z) == x + y + z

Dev3(x, y, z) ==
    Max3(Abs(3 * x - Sum3(x, y, z)), Abs(3 * y - Sum3(x, y, z)), Abs(3 * z - Sum3(x, y, z)))

\* the number of binary digits of n
RECURSIVE BitLength(_)
BitLength(n) == IF n = 0 THEN 0 ELSE 1 + BitLength(n \div 2)

\* np.mean of three whole numbers of sum s: the sign of (double s / 3) - s / 3.
\* s / 3 is its whole part, of BitLength binary digits, followed by 0.0101...
\* or 0.1010..., cut after 53 digits and rounded to nearest
MeanError(s) ==
    IF s % 3 = 0 THEN 0
    ELSE IF s \div 3 = 0 THEN -1
    ELSE IF s % 3 = 1
    THEN (IF BitLength(s \div 3) % 2 = 0 THEN 1 ELSE -1)
    ELSE (IF BitLength(s \div 3) % 2 = 1 THEN 1 ELSE -1)

\* abs(p - avg) exceeds the exact deviation dev / 3: the phase p is one of the
\* most deviating and lies on the side the rounded avg moved away from
DeviationRoundedUp(p, s, dev) ==
    /\ Abs(3 * p - s) = dev
    /\ \/ (3 * p < s /\ MeanError(s) > 0)
       \/ (3 * p > s /\ MeanError(s) < 0)

\* unbalance > pct, where unbalance is (max_dev / avg) * 100 if avg > 0, else 0
UnbalanceGT(x, y, z, pct) ==
    IF Sum3(x, y, z) > 0
    THEN IF 100 * Dev3(x, y, z) = pct * Sum3(x, y, z)
         THEN \E p \in {x, y, z} : DeviationRoundedUp(p, Sum3(x, y, z), Dev3(x, y, z))
         ELSE 100 * Dev3(x, y, z) > pct * Sum3(x, y, z)
    ELSE 0 > pct

\* avg_v > 0 and avg_v < rated_voltage * 0.9; where sum / 3 = 0.9 * rated_voltage
\* both doubles are that whole number
UnderVoltage(v_r, v_s, v_t, rated_voltage) ==
    Sum3(v_r, v_s, v_t) > 0 /\ 10 * Sum3(v_r, v_s, v_t) < 27 * rated_voltage

\* a slip: under-voltage is decided on the lowest phase instead of the average
voltage_issues_min_phase(v_r, v_s, v_t, rated_voltage) ==
    LET min_v == -Max3(-v_r, -v_s, -v_t)
    IN  IF Sum3(v_r, v_s, v_t) > 0 /\ 10 * min_v < 9 * rated_voltage
        THEN <<"Under Voltage">>
        ELSE IF UnbalanceGT(v_r, v_s, v_t, IEC_VOLTAGE_UNBALANCE_MAX)
        THEN <<"Voltage Unbalance">>
        ELSE <<>>

voltage_issues(v_r, v_s, v_t, rated_voltage) ==
    IF UnderVoltage(v_r, v_s, v_t, rated_voltage)
    THEN <<"Under Voltage">>
    ELSE IF UnbalanceGT(v_r, v_s, v_t, IEC_VOLTAGE_UNBALANCE_MAX)
    THEN <<"Voltage Unbalance">>
    ELSE <<>>

\* load_pct = (avg_i / fla) * 100 = 100 * sum / (3 * fla); load_pct is 40 or 100
\* in exact terms only where sum / 3 is whole, and the doubles 0.4 * 100 and
\* 1.0 * 100 are 40.0 and 100.0
load_issues(i_r, i_s, i_t, fla) ==
    IF fla > 0 /\ Sum3(i_r, i_s, i_t) > 0
    THEN IF 100 * Sum3(i_r, i_s, i_t) < 40 * 3 * fla THEN <<"Under Loading">>
         ELSE IF 100 * Sum3(i_r, i_s, i_t) > 100 * 3 * fla THEN <<"Over Loading">>
         ELSE <<>>
    ELSE <<>>

\* a boundary slip: the two tiers are taken as inclusive
current_issues_inclusive(i_r, i_s, i_t) ==
    IF Sum3(i_r, i_s, i_t) > 0
       /\ 100 * Dev3(i_r, i_s, i_t) >= IEC_CURRENT_UNBALANCE_MAX * Sum3(i_r, i_s, i_t)
    THEN <<"Current Unbalance">>
    ELSE IF Sum3(i_r, i_s, i_t) > 0 /\ 100 * Dev3(i_r, i_s, i_t) >= 5 * Sum3(i_r, i_s, i_t)
    THEN <<"Minor Current Unbalance">>
    ELSE <<>>

current_issues(i_r, i_s, i_t) ==
    IF UnbalanceGT(i_r, i_s, i_t, IEC_CURRENT_UNBALANCE_MAX)
    THEN <<"Current Unbalance">>
    ELSE IF UnbalanceGT(i_r, i_s, i_t, 5)
    THEN <<"Minor Current Unbalance">>
    ELSE <<>>

\* the returned tuple, from the issues found
electrical_result(issues, raised) ==
    IF issues = <<>>
    THEN [stat |-> "Electrical Healthy", issues |-> issues, level |-> "normal",
          raised |-> raised]
    ELSE [stat |-> "Issues", issues |-> issues, level |-> "warning", raised |-> raised]

\* raised: max_dev_v / avg_v, max_dev_i / avg_i or avg_i / fla was evaluated
\* with a zero denominator
check_electrical(v_r, v_s, v_t, i_r, i_s, i_t, fla, rated_voltage) ==
    electrical_result(
        voltage_issues(v_r, v_s, v_t, rated_voltage)
            \o load_issues(i_r, i_s, i_t, fla)
            \o current_issues(i_r, i_s, i_t),
        \/ (Sum3(v_r, v_s, v_t) > 0 /\ DivByZero(Sum3(v_r, v_s, v_t)))
        \/ (Sum3(i_r, i_s, i_t) > 0 /\ DivByZero(Sum3(i_r, i_s, i_t)))
        \/ (fla > 0 /\ Sum3(i_r, i_s, i_t) > 0 /\ DivByZero(fla)))

----------------------------------------------------------------------------
(* Hydraulic performance                                                   *)

\* API 610 9.4.2: suction_p < 1.0 and discharge_p > 2.0, elif suction_p < 0.5
suction_issues(suction_p, discharge_p) ==
    IF suction_p < 4 /\ discharge_p > 8 THEN <<"Risk of Cavitation">>
    ELSE IF suction_p < 2 THEN <<"Critical Suction Pressure">>
    ELSE <<>>

\* API 610 9.4.3: delta_p < 1.0 and discharge_p > 0
differential_issues(suction_p, discharge_p) ==
    IF discharge_p - suction_p < 4 /\ discharge_p > 0
    THEN <<"Low Differential Pressure">>
    ELSE <<>>

\* API 610 9.4.1: efficiency_indicator = delta_p / (head_h / 10.2) * 100 < 70,
\* with delta_p in quarters of bar: delta_p * 1020 < 70 * 4 * head_h; where the
\* two sides are equal the double efficiency_indicator is 70.0
bep_issues(suction_p, discharge_p, flow_q, head_h) ==
    IF flow_q > 0 /\ head_h > 0
    THEN IF discharge_p - suction_p > 0 /\ head_h > 0
            /\ (discharge_p - suction_p) * 1020 < 70 * 4 * head_h
         THEN <<"Off-BEP Operation">>
         ELSE <<>>
    ELSE <<>>

\* API 610 9.3.2: abs(actual_rpm - rated_rpm) / rated_rpm * 100 > 5; the double
\* 0.05 * 100 is 5.0
rpm_issues(actual_rpm, rated_rpm) ==
    IF rated_rpm > 0 /\ actual_rpm > 0
    THEN IF 100 * Abs(actual_rpm - rated_rpm) > 5 * rated_rpm
         THEN <<"RPM Deviation">>
         ELSE <<>>
    ELSE <<>>

\* the returned tuple, from the issues found
hydraulic_result(issues, raised) ==
    IF issues = <<>>
    THEN [stat |-> "Normal Operation", issues |-> issues, level |-> "normal",
          raised |-> raised]
    ELSE [stat |-> "Issues", issues |-> issues, level |-> "warning", raised |-> raised]

\* raised: delta_p / head_pressure_bar or ... / rated_rpm was evaluated with a
\* zero denominator
check_hydraulic(suction_p, discharge_p, flow_q, head_h, actual_rpm, rated_rpm) ==
    hydraulic_result(
        suction_issues(suction_p, discharge_p)
            \o differential_issues(suction_p, discharge_p)
            \o bep_issues(suction_p, discharge_p, flow_q, head_h)
            \o rpm_issues(actual_rpm, rated_rpm),
        \/ (flow_q > 0 /\ head_h > 0 /\ discharge_p - suction_p > 0
            /\ head_h > 0 /\ DivByZero(head_h))
        \/ (rated_rpm > 0 /\ actual_rpm > 0 /\ DivByZero(rated_rpm)))

----------------------------------------------------------------------------
(* Bearing acceleration: the body of the loop over the bearings             *)

\* a precedence slip: the zone of the total is decided first, and the two
\* high-band triggers are looked at only from the Warning zone upwards
acc_status_zone_first(b1, b2, b3) ==
    LET total == b1 + b2 + b3
    IN  IF total > 0
        THEN IF total >= ACC_LIMITS.Critical
             THEN [status |-> "Bearing Damage", bearing_fault_detected |-> TRUE,
                   reported |-> TRUE, raised |-> DivByZero(total)]
             ELSE IF total < ACC_LIMITS.Normal
             THEN [status |-> "Bearing OK", bearing_fault_detected |-> FALSE,
                   reported |-> FALSE, raised |-> DivByZero(total)]
             ELSE IF RatioGT(b3, total, 4, 10) \/ b3 >= 6 \/ total >= ACC_LIMITS.Warning
             THEN [status |-> "Early Bearing Fault", bearing_fault_detected |-> TRUE,
                   reported |-> TRUE, raised |-> DivByZero(total)]
             ELSE [status |-> "Warning", bearing_fault_detected |-> TRUE,
                   reported |-> FALSE, raised |-> DivByZero(total)]
        ELSE [status |-> "Bearing OK", bearing_fault_detected |-> FALSE,
              reported |-> FALSE, raised |-> FALSE]

\* reported: the status is appended to final_report;
\* raised: b3 / total was evaluated with total = 0
acc_status(b1, b2, b3) ==
    LET total == b1 + b2 + b3
    IN  IF total > 0
        THEN IF total >= ACC_LIMITS.Critical
             THEN [status |-> "Bearing Damage", bearing_fault_detected |-> TRUE,
                   reported |-> TRUE, raised |-> DivByZero(total)]
             ELSE IF RatioGT(b3, total, 4, 10) \/ b3 >= 6 \/ total >= ACC_LIMITS.Warning
             THEN [status |-> "Early Bearing Fault", bearing_fault_detected |-> TRUE,
                   reported |-> TRUE, raised |-> DivByZero(total)]
             ELSE IF total >= ACC_LIMITS.Normal
             THEN [status |-> "Warning", bearing_fault_detected |-> TRUE,
                   reported |-> FALSE, raised |-> DivByZero(total)]
             ELSE [status |-> "Bearing OK", bearing_fault_detected |-> FALSE,
                   reported |-> FALSE, raised |-> DivByZero(total)]
        ELSE [status |-> "Bearing OK", bearing_fault_detected |-> FALSE,
              reported |-> FALSE, raised |-> FALSE]

----------------------------------------------------------------------------
(* State                                                                   *)

VARIABLES
    \* the rule engine called as a library: the last call and, for the
    \* severity classifier, the call before it on the same threshold table
    call, prev,
    \* machine specification widgets
    machine_group, foundation_type, pump_standard, motor_rpm, actual_rpm,
    fla, rated_voltage, flow_q, head_h,
    \* reading widgets
    vib_data, temp_data, acc_data,
    v_r, v_s, v_t, i_r, i_s, i_t,
    suction_p, discharge_p,
    \* the number of widget groups the operator has filled in
    edited,
    \* what the last press of RUN SAFETY DIAGNOSTIC produced
    verdicts, final_report, detected_faults, conclusion, recommendations_shown

callvars == <<call, prev>>

specvars == <<machine_group, foundation_type, pump_standard, motor_rpm, actual_rpm,
              fla, rated_voltage, flow_q, head_h>>

readings == <<vib_data, temp_data, acc_data, v_r, v_s, v_t, i_r, i_s, i_t,
              suction_p, discharge_p>>

readingvars == <<readings, edited>>

reportvars == <<verdicts, final_report, detected_faults, conclusion,
                recommendations_shown>>

vars == <<callvars, specvars, readingvars, reportvars>>

bearings == <<"Motor DE (B1)", "Motor NDE (B2)", "Pump DE (B3)", "Pump NDE (B4)">>

BearingNames == {bearings[i] : i \in 1..Len(bearings)}

\* vib_data[b_name] as built from the three widgets of a bearing, in halves
\* of mm/s
VibEntry(h, v, a) ==
    [h |-> h, v |-> v, a |-> a, max_value |-> Max3(h, v, a), sum_value |-> h + v + a]

\* acc_data[b_name] as built from the three band widgets of a bearing, in
\* halves of g
AccEntry(b1, b2, b3) == [b1 |-> b1, b2 |-> b2, b3 |-> b3, total |-> b1 + b2 + b3]

NoCall == [fn |-> "none", state |-> "none"]

\* the form as first rendered: every widget at its default value, no report
FormDefaults ==
    /\ machine_group = "Group 1"
    /\ foundation_type = "Rigid"
    /\ pump_standard = "API 610 / ISO 13709"
    /\ motor_rpm = 2900
    /\ actual_rpm = 2900
    /\ fla = 100
    /\ rated_voltage = 380
    /\ flow_q = 0
    /\ head_h = 0
    /\ vib_data = [b \in BearingNames |-> VibEntry(0, 0, 0)]
    /\ temp_data = [b \in BearingNames |-> 0]
    /\ acc_data = [b \in BearingNames |-> AccEntry(0, 0, 0)]
    /\ v_r = 380 /\ v_s = 380 /\ v_t = 380
    /\ i_r = 0 /\ i_s = 0 /\ i_t = 0
    /\ suction_p = 0
    /\ discharge_p = 0
    /\ edited = 0
    /\ verdicts = <<>>
    /\ final_report = <<>>
    /\ detected_faults = <<>>
    /\ conclusion = "not run"
    /\ recommendations_shown = <<>>

----------------------------------------------------------------------------
(* The rule engine called as a library.  A call starts pending, with its  *)
(* arguments drawn from the sets below, and the function's action returns  *)
(* it.  The severity classifier may be called a second time on the same    *)
(* threshold table; prev then holds the first call.                        *)

MaxVelocity == 115
MaxHalfSteps == 8
MaxAccSteps == 8
MaxTemp == 105

Velocities == 0..MaxVelocity

\* the four groups of the table and one the table does not have
MachineGroups == DOMAIN ISO_10816_THRESHOLDS \cup {"Group 5"}

\* the two foundations of the table and one the table does not have
FoundationTypes == {"Rigid", "Flexible", "Spring"}

\* h, v, a in halves of mm/s
HalfVelocities == 0..MaxHalfSteps

\* acceleration bands in halves of g
HalfAccelerations == 0..MaxAccSteps

Temperatures == 0..MaxTemp

Voltages == {0, 300, 342, 380}

RatedVoltages == {0, 380}

\* 60, 70, 70 A and 90, 100, 110 A are 10 % out of balance, 57, 60, 63 A are 5 %
Currents == {0, 30, 57, 60, 63, 70, 90, 100, 110, 120}

FullLoadAmps == {0, 100}

\* quarters of bar
Pressures == {0, 1, 2, 3, 4, 6, 8, 10, 24}

Flows == {0, 50}

Heads == {0, 30, 60}

ActualSpeeds == {0, 2700, 2755, 2900}

RatedSpeeds == {0, 2900}

\* the call c returned with result r
Returned(c, r) ==
    [f \in DOMAIN c \cup {"ret"} |->
        IF f = "ret" THEN r ELSE IF f = "state" THEN "returned" ELSE c[f]]

PendingCalls ==
    [fn : {"get_iso_severity"}, state : {"pending"},
     group : MachineGroups, foundation : FoundationTypes,
     max_velocity : Velocities]
    \cup
    [fn : {"get_api_610_status"}, state : {"pending"}, max_velocity : Velocities]
    \cup
    \* the caller passes sum_velocity = h + v + a
    {[fn |-> "diagnose_fault", state |-> "pending", h |-> h, v |-> v, a |-> a,
      sum_velocity |-> h + v + a] :
        h \in HalfVelocities, v \in HalfVelocities, a \in HalfVelocities}
    \cup
    [fn : {"check_temperature"}, state : {"pending"}, temp : Temperatures]
    \cup
    [fn : {"check_electrical"}, state : {"pending"},
     v_r : Voltages, v_s : Voltages, v_t : Voltages,
     i_r : Currents, i_s : Currents, i_t : Currents,
     fla : FullLoadAmps, rated_voltage : RatedVoltages]
    \cup
    [fn : {"check_hydraulic"}, state : {"pending"},
     suction_p : Pressures, discharge_p : Pressures, flow_q : Flows, head_h : Heads,
     actual_rpm : ActualSpeeds, rated_rpm : RatedSpeeds]
    \cup
    [fn : {"acc_status"}, state : {"pending"},
     b1 : HalfAccelerations, b2 : HalfAccelerations, b3 : HalfAccelerations]

Init ==
    /\ call \in PendingCalls
    /\ prev = NoCall
    /\ FormDefaults

Call_get_iso_severity ==
    /\ call.fn = "get_iso_severity"
    /\ \/ /\ call.state = "pending"
          /\ call' = Returned(call, get_iso_severity(call.group, call.foundation,
                                                     call.max_velocity))
          /\ prev' = prev
       \/ /\ call.state = "returned"
          /\ prev = NoCall
          /\ \E max_velocity \in Velocities :
                call' = [call EXCEPT !.max_velocity = max_velocity,
                                     !.ret = get_iso_severity(call.group, call.foundation,
                                                              max_velocity)]
          /\ prev' = call
    /\ UNCHANGED <<specvars, readingvars, reportvars>>

Call_get_api_610_status ==
    /\ call.fn = "get_api_610_status"
    /\ \/ /\ call.state = "pending"
          /\ call' = Returned(call, get_api_610_status(call.max_velocity))
          /\ prev' = prev
       \/ /\ call.state = "returned"
          /\ prev = NoCall
          /\ \E max_velocity \in Velocities :
                call' = [call EXCEPT !.max_velocity = max_velocity,
                                     !.ret = get_api_610_status(max_velocity)]
          /\ prev' = call
    /\ UNCHANGED <<specvars, readingvars, reportvars>>

Call_diagnose_fault ==
    /\ call.fn = "diagnose_fault"
    /\ call.state = "pending"
    /\ call' = Returned(call, diagnose_fault(call.h, call.v, call.a, call.sum_velocity))
    /\ UNCHANGED <<prev, specvars, readingvars, reportvars>>

Call_check_temperature ==
    /\ call.fn = "check_temperature"
    /\ call.state = "pending"
    /\ call' = Returned(call, check_temperature(call.temp))
    /\ UNCHANGED <<prev, specvars, readingvars, reportvars>>

Call_check_electrical ==
    /\ call.fn = "check_electrical"
    /\ call.state = "pending"
    /\ call' = Returned(call, check_electrical(call.v_r, call.v_s, call.v_t,
                                               call.i_r, call.i_s, call.i_t,
                                               call.fla, call.rated_voltage))
    /\ UNCHANGED <<prev, specvars, readingvars, reportvars>>

Call_check_hydraulic ==
    /\ call.fn = "check_hydraulic"
    /\ call.state = "pending"
    /\ call' = Returned(call, check_hydraulic(call.suction_p, call.discharge_p,
                                              call.flow_q, call.head_h,
                                              call.actual_rpm, call.rated_rpm))
    /\ UNCHANGED <<prev, specvars, readingvars, reportvars>>

Call_acc_status ==
    /\ call.fn = "acc_status"
    /\ call.state = "pending"
    /\ call' = Returned(call, acc_status(call.b1, call.b2, call.b3))
    /\ UNCHANGED <<prev, specvars, readingvars, reportvars>>

Next ==
    \/ Call_get_iso_severity
    \/ Call_get_api_610_status
    \/ Call_diagnose_fault
    \/ Call_check_temperature
    \/ Call_check_electrical
    \/ Call_check_hydraulic
    \/ Call_acc_status

Spec == Init /\ [][Next]_vars

----------------------------------------------------------------------------
(* The diagnostic run: the handler of the RUN SAFETY DIAGNOSTIC button     *)

\* "Pump" in b_name
is_pump(b_name) == b_name \in {"Pump DE (B3)", "Pump NDE (B4)"}

\* an entry of final_report: the channel it is about and the words of its text
Entry(src, labels) == [src |-> src, labels |-> labels]

\* a reading in halves of mm/s as the severity classifiers take it, in tenths
Tenths(max_v) == 5 * max_v

\* severity table selection for one bearing
bearing_severity(b_name, max_v, group, foundation, standard) ==
    IF is_pump(b_name) /\ standard = "API 610 / ISO 13709"
    THEN LET r == get_api_610_status(Tenths(max_v))
         IN  [zone |-> r.zone, limit |-> r.limit,
              standard_name |-> <<"API 610 11th Ed. 9.3.4">>,
              severity_level |-> r.level]
    ELSE LET r == get_iso_severity(group, foundation, Tenths(max_v))
         IN  [zone |-> r.zone, limit |-> r.limit, standard_name |-> r.standard,
              severity_level |-> r.level]

\* fault diagnosis only at severity warning or critical, with max_v > 0
gated_fault(data, severity_level) ==
    IF severity_level \in {"warning", "critical"} /\ data.max_value > 0
    THEN diagnose_fault(data.h, data.v, data.a, data.sum_value).fault
    ELSE "None"

\* a gating slip: the fault pattern is also matched at a warning or critical
\* temperature
card_of_temperature_gated(data, sev, t) ==
    [zone |-> sev.zone, limit |-> sev.limit, standard_name |-> sev.standard_name,
     severity_level |-> sev.severity_level,
     fault |-> IF \/ sev.severity_level \in {"warning", "critical"}
                  \/ t.level \in {"warning", "critical"}
               THEN IF data.max_value > 0
                    THEN diagnose_fault(data.h, data.v, data.a, data.sum_value).fault
                    ELSE "None"
               ELSE "None",
     temp_stat |-> t.stat, temp_level |-> t.level]

\* the verdicts of one bearing, from its severity sev and temperature verdict t
card_of(data, sev, t) ==
    [zone |-> sev.zone, limit |-> sev.limit, standard_name |-> sev.standard_name,
     severity_level |-> sev.severity_level,
     fault |-> gated_fault(data, sev.severity_level),
     temp_stat |-> t.stat, temp_level |-> t.level]

\* a slip: the severity is classified on the sum of the three directions
bearing_card_on_sum(b_name, data, temp, group, foundation, standard) ==
    card_of(data, bearing_severity(b_name, data.sum_value, group, foundation, standard),
            check_temperature(temp))

\* severity, fault label and temperature verdict of one bearing
bearing_card(b_name, data, temp, group, foundation, standard) ==
    card_of(data, bearing_severity(b_name, data.max_value, group, foundation, standard),
            check_temperature(temp))

\* what the bearing with verdicts c appends to detected_faults
mech_detected(c, detected) ==
    LET d1 == IF c.fault # "None" THEN Append(detected, c.fault) ELSE detected
        d2 == IF c.temp_level \in {"warning", "critical"}
              THEN Append(d1, "Temperature") ELSE d1
    IN  IF /\ c.severity_level = "critical"
           /\ c.fault = "None"
           /\ "High Vibration" \notin Range(d2)
        THEN Append(d2, "High Vibration") ELSE d2

\* a reporting slip: critical vibration is reported only with a matched pattern
mech_report_pattern_only(b_name, c) ==
    LET r1 == IF c.severity_level = "critical" /\ c.fault # "None"
              THEN <<Entry(b_name, <<c.fault, c.zone>>)>>
              ELSE <<>>
        r2 == IF c.temp_level = "critical"
              THEN IF ~(c.severity_level = "critical" /\ c.fault = "None")
                   THEN <<Entry(b_name, <<"Temp", c.temp_stat>>)>>
                   ELSE <<>>
              ELSE IF c.temp_level = "warning" /\ c.severity_level # "critical"
              THEN <<Entry(b_name, <<"Temp", c.temp_stat>>)>>
              ELSE <<>>
        r3 == IF c.severity_level = "warning" /\ c.fault # "None"
              THEN <<Entry(b_name, <<c.fault, c.zone>>)>>
              ELSE <<>>
    IN  r1 \o r2 \o r3

\* what the bearing with verdicts c appends to final_report
mech_report(b_name, c) ==
    LET r1 == IF c.severity_level = "critical"
              THEN IF c.fault # "None"
                   THEN <<Entry(b_name, <<c.fault, c.zone>>)>>
                   ELSE <<Entry(b_name, <<"CRITICAL VIBRATION", c.zone>>)>>
              ELSE <<>>
        r2 == IF c.temp_level = "critical"
              THEN IF ~(c.severity_level = "critical" /\ c.fault = "None")
                   THEN <<Entry(b_name, <<"Temp", c.temp_stat>>)>>
                   ELSE <<>>
              ELSE IF c.temp_level = "warning" /\ c.severity_level # "critical"
              THEN <<Entry(b_name, <<"Temp", c.temp_stat>>)>>
              ELSE <<>>
        r3 == IF c.severity_level = "warning" /\ c.fault # "None"
              THEN <<Entry(b_name, <<c.fault, c.zone>>)>>
              ELSE <<>>
    IN  r1 \o r2 \o r3

\* the vibration and temperature loop over bearings[i..], from the lists built
\* so far; cards[b_name] are the verdicts of bearing b_name
RECURSIVE mech_loop(_, _, _, _)
mech_loop(i, cards, report, detected) ==
    IF i > Len(bearings) THEN [final_report |-> report, detected_faults |-> detected]
    ELSE mech_loop(i + 1, cards,
                   report \o mech_report(bearings[i], cards[bearings[i]]),
                   mech_detected(cards[bearings[i]], detected))

RECURSIVE acc_loop(_, _, _)

acc_next(i, report, detected, r) ==
    acc_loop(i + 1,
             IF r.reported THEN Append(report, Entry(bearings[i], <<r.status>>))
                           ELSE report,
             IF r.bearing_fault_detected THEN Append(detected, "Bearing") ELSE detected)

\* the bearing acceleration loop over bearings[i..]
acc_loop(i, report, detected) ==
    IF i > Len(bearings) THEN [final_report |-> report, detected_faults |-> detected]
    ELSE acc_next(i, report, detected,
                  acc_status(acc_data[bearings[i]].b1, acc_data[bearings[i]].b2,
                             acc_data[bearings[i]].b3))

\* the electrical and the hydraulic section, appended to the lists so far
channel_sections(lists, elec, hyd) ==
    LET report3 == IF elec.level = "warning"
                   THEN Append(lists.final_report, Entry("Electrical", elec.issues))
                   ELSE lists.final_report
        detected3 == IF elec.level = "warning"
                     THEN Append(lists.detected_faults, "Electrical")
                     ELSE lists.detected_faults
    IN  [final_report |-> IF hyd.level = "warning"
                          THEN Append(report3, Entry("Hydraulic", hyd.issues))
                          ELSE report3,
         detected_faults |-> IF hyd.level = "warning"
                             THEN Append(detected3, "Hydraulic")
                             ELSE detected3]

\* "Zone D" in item or "Trip Required" in item or "Overheat" in item
\* or "Bearing Damage" in item or "Critical Suction" in item
critical_condition(item) ==
    Range(item.labels) \cap {"Zone D (Unacceptable)", "Trip Required", "Overheat",
                             "Bearing Damage", "Critical Suction Pressure"} # {}

RecommendationOrder ==
    <<"Misalignment", "Unbalance", "Mechanical Looseness", "High Vibration",
      "Bearing", "Temperature", "Electrical", "Hydraulic">>

\* a slip: one recommendation for each entry of detected_faults
recommendations_per_finding(detected) ==
    LET Known(category) == category \in Range(RecommendationOrder)
    IN  SelectSeq(detected, Known)

\* one recommendation for each category found in detected_faults
recommendations(detected) ==
    LET Detected(category) == category \in Range(detected)
    IN  SelectSeq(RecommendationOrder, Detected)

NoReport ==
    /\ verdicts' = <<>>
    /\ final_report' = <<>>
    /\ detected_faults' = <<>>
    /\ conclusion' = "not run"
    /\ recommendations_shown' = <<>>

RunDiagnostic ==
    /\ verdicts' =
          [mech |-> [b \in BearingNames |->
                       bearing_card(b, vib_data[b], temp_data[b], machine_group,
                                    foundation_type, pump_standard)],
           acc |-> [b \in BearingNames |->
                       acc_status(acc_data[b].b1, acc_data[b].b2, acc_data[b].b3).status],
           elec |-> check_electrical(v_r, v_s, v_t, i_r, i_s, i_t, fla, rated_voltage),
           hyd |-> check_hydraulic(suction_p, discharge_p, flow_q, head_h,
                                   actual_rpm, motor_rpm)]
    /\ \E mech \in {mech_loop(1, verdicts'.mech, <<>>, <<>>)} :
       \E acc \in {acc_loop(1, mech.final_report, mech.detected_faults)} :
       \E lists \in {channel_sections(acc, verdicts'.elec, verdicts'.hyd)} :
          /\ final_report' = lists.final_report
          /\ detected_faults' = lists.detected_faults
    /\ conclusion' =
          IF final_report' = <<>> THEN "STATUS AMAN"
          ELSE IF \E k \in 1..Len(final_report') : critical_condition(final_report'[k])
          THEN "SHUTDOWN"
          ELSE "PERINGATAN"
    /\ recommendations_shown' =
          IF final_report' = <<>> THEN <<>> ELSE recommendations(detected_faults')
    /\ UNCHANGED <<callvars, specvars, readingvars>>

(* The operator fills in the form, one group of widgets at a time, each    *)
(* group once.  Changing a widget reruns the script without the button     *)
(* pressed, which clears the report.                                       *)

MaxEdited == 2

\* a bearing shows one vibration level in one directional pattern: axial only,
\* radial only, vertical and axial, or all three directions alike
RunVelocities == {7, 10, 16}

\* the patterns at each level, and a low axial reading of 2.0 mm/s
RunVibrations ==
    {<<0, 0, 4>>} \cup
    UNION {{<<0, 0, x>>, <<x, x, 0>>, <<0, x, x>>, <<x, x, x>>} : x \in RunVelocities}

RunTemperatures == {80, 90, 100}

RunAccelerations == {8}

\* a bearing shows one acceleration level in one band pattern: low band only,
\* high band only, the two upper bands, or all three bands alike
RunBands ==
    UNION {{<<x, 0, 0>>, <<0, 0, x>>, <<0, x, x>>, <<x, x, x>>} : x \in RunAccelerations}

RunVoltages == {380}

\* supply off, or one or two phases lost
RunPhaseVoltages ==
    {<<0, 0, 0>>} \cup UNION {{<<x, x, 0>>, <<0, 0, x>>} : x \in RunVoltages}

RunCurrents == {100}

\* all phases loaded, or one or two phases without current
RunPhaseCurrents ==
    UNION {{<<x, x, x>>, <<x, x, 0>>, <<0, 0, x>>} : x \in RunCurrents}

\* quarters of bar
RunSuctions == {0, 1, 3, 6}

RunDischarges == {0, 10, 24}

EditVibration ==
    /\ edited < MaxEdited
    /\ edited' = edited + 1
    /\ \E b \in BearingNames, hva \in RunVibrations :
        /\ vib_data[b] = VibEntry(0, 0, 0)
        /\ vib_data' = [vib_data EXCEPT ![b] = VibEntry(hva[1], hva[2], hva[3])]
        /\ UNCHANGED <<temp_data, acc_data, v_r, v_s, v_t, i_r, i_s, i_t,
                       suction_p, discharge_p>>
        /\ UNCHANGED <<callvars, specvars>>
        /\ NoReport

EditTemperature ==
    /\ edited < MaxEdited
    /\ edited' = edited + 1
    /\ \E b \in BearingNames, temp \in RunTemperatures :
        /\ temp_data[b] = 0
        /\ temp_data' = [temp_data EXCEPT ![b] = temp]
        /\ UNCHANGED <<vib_data, acc_data, v_r, v_s, v_t, i_r, i_s, i_t,
                       suction_p, discharge_p>>
        /\ UNCHANGED <<callvars, specvars>>
        /\ NoReport

EditAcceleration ==
    /\ edited < MaxEdited
    /\ edited' = edited + 1
    /\ \E b \in BearingNames, bands \in RunBands :
        /\ acc_data[b] = AccEntry(0, 0, 0)
        /\ acc_data' = [acc_data EXCEPT ![b] = AccEntry(bands[1], bands[2], bands[3])]
        /\ UNCHANGED <<vib_data, temp_data, v_r, v_s, v_t, i_r, i_s, i_t,
                       suction_p, discharge_p>>
        /\ UNCHANGED <<callvars, specvars>>
        /\ NoReport

EditVoltage ==
    /\ edited < MaxEdited
    /\ edited' = edited + 1
    /\ \E volts \in RunPhaseVoltages :
        /\ <<v_r, v_s, v_t>> = <<380, 380, 380>>
        /\ v_r' = volts[1] /\ v_s' = volts[2] /\ v_t' = volts[3]
        /\ UNCHANGED <<vib_data, temp_data, acc_data, i_r, i_s, i_t,
                       suction_p, discharge_p>>
        /\ UNCHANGED <<callvars, specvars>>
        /\ NoReport

EditCurrent ==
    /\ edited < MaxEdited
    /\ edited' = edited + 1
    /\ \E amps \in RunPhaseCurrents :
        /\ <<i_r, i_s, i_t>> = <<0, 0, 0>>
        /\ i_r' = amps[1] /\ i_s' = amps[2] /\ i_t' = amps[3]
        /\ UNCHANGED <<vib_data, temp_data, acc_data, v_r, v_s, v_t,
                       suction_p, discharge_p>>
        /\ UNCHANGED <<callvars, specvars>>
        /\ NoReport

EditPressure ==
    /\ edited < MaxEdited
    /\ edited' = edited + 1
    /\ \E suction \in RunSuctions, discharge \in RunDischarges :
        /\ <<suction_p, discharge_p>> = <<0, 0>>
        /\ suction_p' = suction /\ discharge_p' = discharge
        /\ UNCHANGED <<vib_data, temp_data, acc_data, v_r, v_s, v_t, i_r, i_s, i_t>>
        /\ UNCHANGED <<callvars, specvars>>
        /\ NoReport

EditDesignPoint ==
    /\ edited < MaxEdited
    /\ edited' = edited + 1
    /\ \E flow \in Flows, head \in Heads :
        /\ <<flow_q, head_h>> = <<0, 0>>
        /\ flow_q' = flow /\ head_h' = head
        /\ UNCHANGED <<machine_group, foundation_type, pump_standard, motor_rpm,
                       actual_rpm, fla, rated_voltage>>
        /\ UNCHANGED <<callvars, readings>>
        /\ NoReport

EditSpeed ==
    /\ edited < MaxEdited
    /\ edited' = edited + 1
    /\ \E actual \in {0, 2700, 2900}, rated \in RatedSpeeds :
        /\ <<actual_rpm, motor_rpm>> = <<2900, 2900>>
        /\ actual_rpm' = actual /\ motor_rpm' = rated
        /\ UNCHANGED <<machine_group, foundation_type, pump_standard,
                       fla, rated_voltage, flow_q, head_h>>
        /\ UNCHANGED <<callvars, readings>>
        /\ NoReport

EditNameplate ==
    /\ edited < MaxEdited
    /\ edited' = edited + 1
    /\ \E amps \in FullLoadAmps, rated \in RatedVoltages :
        /\ <<fla, rated_voltage>> = <<100, 380>>
        /\ fla' = amps /\ rated_voltage' = rated
        /\ UNCHANGED <<machine_group, foundation_type, pump_standard, motor_rpm,
                       actual_rpm, flow_q, head_h>>
        /\ UNCHANGED <<callvars, readings>>
        /\ NoReport

SelectStandard ==
    /\ edited < MaxEdited
    /\ edited' = edited + 1
    /\ \E group \in DOMAIN ISO_10816_THRESHOLDS, foundation \in {"Rigid", "Flexible"},
       standard \in {"API 610 / ISO 13709", "ISO 10816-3 General"} :
        /\ <<machine_group, foundation_type, pump_standard>>
              = <<"Group 1", "Rigid", "API 610 / ISO 13709">>
        /\ machine_group' = group
        /\ foundation_type' = foundation
        /\ pump_standard' = standard
        /\ UNCHANGED <<motor_rpm, actual_rpm, fla, rated_voltage, flow_q, head_h>>
        /\ UNCHANGED <<callvars, readings>>
        /\ NoReport

InitRun ==
    /\ call = NoCall
    /\ prev = NoCall
    /\ FormDefaults

NextRun ==
    \/ EditVibration
    \/ EditTemperature
    \/ EditAcceleration
    \/ EditVoltage
    \/ EditCurrent
    \/ EditPressure
    \/ EditDesignPoint
    \/ EditSpeed
    \/ EditNameplate
    \/ SelectStandard
    \/ RunDiagnostic

SpecRun == InitRun /\ [][NextRun]_vars

----------------------------------------------------------------------------
(* Properties                                                              *)

Rank(level) == CASE level = "normal" -> 0 [] level = "warning" -> 1 [] level = "critical" -> 2

\* a call of a severity classifier on a threshold table that exists
IsClassifierCall(c) ==
    /\ c.fn \in {"get_iso_severity", "get_api_610_status"}
    /\ c.fn = "get_iso_severity" =>
          /\ c.group \in DOMAIN ISO_10816_THRESHOLDS
          /\ c.foundation \in DOMAIN ISO_10816_THRESHOLDS[c.group]

\* C1: on one threshold table, a smaller value never gets a worse level than
\* a larger one (normal < warning < critical), for the API 610 table and for
\* every (machine group, foundation) entry of the ISO table.
SeverityMonotonic ==
    (/\ IsClassifierCall(prev)
     /\ call.state = "returned"
     /\ prev.max_velocity < call.max_velocity)
    => Rank(prev.ret.level) <= Rank(call.ret.level)

\* two calls on one table, the smaller value normal and the larger critical
SeverityMonotonicWitness ==
    /\ IsClassifierCall(prev)
    /\ call.state = "returned"
    /\ prev.max_velocity < call.max_velocity
    /\ prev.ret.level = "normal"
    /\ call.ret.level = "critical"

\* the lowest i with value < limits[i], or Len(limits) + 1 if there is none
LowestZone(limits, value) ==
    IF \E i \in 1..Len(limits) : value < limits[i]
    THEN CHOOSE i \in 1..Len(limits) :
            /\ value < limits[i]
            /\ \A j \in 1..(i - 1) : ~(value < limits[j])
    ELSE Len(limits) + 1

IsoZones == <<"Zone A (Good)", "Zone B (Satisfactory)", "Zone C (Unsatisfactory)",
              "Zone D (Unacceptable)">>

ApiZones == <<"Acceptable", "Alert", "Trip Warning", "Trip Required">>

ZoneLevels == <<"normal", "warning", "critical", "critical">>

\* C2: every table has ascending limits, and the classifier returns the lowest
\* zone whose upper limit is strictly greater than the value, the last zone at
\* or above the highest limit; levels are normal, warning, critical, critical.
ClassifierLowestZone ==
    /\ (IsClassifierCall(call) /\ call.fn = "get_iso_severity"
                                /\ call.state = "returned") =>
          LET t == ISO_10816_THRESHOLDS[call.group][call.foundation]
              k == LowestZone(<<t.A, t.B, t.C>>, call.max_velocity)
          IN  /\ t.A < t.B /\ t.B < t.C
              /\ call.ret.zone = IsoZones[k]
              /\ call.ret.level = ZoneLevels[k]
    /\ (call.fn = "get_api_610_status" /\ call.state = "returned") =>
          LET k == LowestZone(<<API_610_LIMITS.Normal, API_610_LIMITS.Alert,
                                API_610_LIMITS.Trip>>, call.max_velocity)
          IN  /\ API_610_LIMITS.Normal < API_610_LIMITS.Alert
              /\ API_610_LIMITS.Alert < API_610_LIMITS.Trip
              /\ call.ret.zone = ApiZones[k]
              /\ call.ret.level = ZoneLevels[k]

\* a value equal to the Alert limit is classified into the zone above it
ClassifierLowestZoneWitness ==
    /\ call.fn = "get_api_610_status"
    /\ call.state = "returned"
    /\ call.max_velocity = API_610_LIMITS.Alert
    /\ call.ret.zone = "Trip Warning"
    /\ call.ret.level = "critical"

IsDiagnosed == call.fn = "diagnose_fault" /\ call.state = "returned"

\* a / sum > 0.5, or a > h and a > v and a > 2.0
MisalignmentHolds ==
    \/ 2 * call.a > call.h + call.v + call.a
    \/ (call.a > call.h /\ call.a > call.v /\ call.a > 4)

\* a / sum < 0.3 and (v / sum > 0.35 or h / sum > 0.35)
UnbalanceHolds ==
    /\ 10 * call.a < 3 * (call.h + call.v + call.a)
    /\ \/ 20 * call.v > 7 * (call.h + call.v + call.a)
       \/ 20 * call.h > 7 * (call.h + call.v + call.a)

\* v > 1.5 * h and v > 2.0
LoosenessHolds == 2 * call.v > 3 * call.h /\ call.v > 4

\* C3 as stated: when the Looseness and the Unbalance conditions both hold and
\* the Misalignment condition does not, the label is Mechanical Looseness.
LoosenessSupersedesUnbalance ==
    (IsDiagnosed /\ LoosenessHolds /\ UnbalanceHolds /\ ~MisalignmentHolds)
    => call.ret.fault = "Mechanical Looseness"

\* C3 amended: when the Looseness and the Unbalance conditions both hold and
\* the Misalignment condition does not, the label is Unbalance.
UnbalancePrecedesLooseness ==
    (IsDiagnosed /\ LoosenessHolds /\ UnbalanceHolds /\ ~MisalignmentHolds)
    => call.ret.fault = "Unbalance"

\* h = 1.0, v = 2.5, a = 0.5: both conditions hold
UnbalancePrecedesLoosenessWitness ==
    /\ IsDiagnosed
    /\ call.h = 2 /\ call.v = 5 /\ call.a = 1
    /\ LoosenessHolds /\ UnbalanceHolds /\ ~MisalignmentHolds
    /\ call.ret.fault = "Unbalance"

\* C4: one label at most, and for sum > 0 the Misalignment condition decides
\* the label whatever the other two conditions are.
MisalignmentFirst ==
    IsDiagnosed =>
        /\ call.ret.fault \in {"None", "Misalignment", "Unbalance", "Mechanical Looseness"}
        /\ (call.sum_velocity > 0 /\ MisalignmentHolds) => call.ret.fault = "Misalignment"

\* Misalignment returned although the Looseness condition holds as well
MisalignmentFirstWitness ==
    /\ IsDiagnosed
    /\ MisalignmentHolds /\ LoosenessHolds
    /\ call.ret.fault = "Misalignment"

IsReturned(fn) == call.fn = fn /\ call.state = "returned"

\* C5: no function divides by zero, and a zero denominator reads as no issue:
\* sum = 0 gives no fault; zero average voltage, zero average current or
\* FLA = 0 flag no unbalance / no load issue; total = 0 gives Bearing OK;
\* head = 0 skips the efficiency check and rated RPM = 0 the RPM check.
NoZeroDenominator ==
    /\ IsReturned("diagnose_fault") =>
          /\ ~call.ret.raised
          /\ call.sum_velocity = 0 => call.ret.fault = "None"
    /\ IsReturned("check_electrical") =>
          /\ ~call.ret.raised
          /\ call.v_r + call.v_s + call.v_t = 0 =>
                Range(call.ret.issues) \cap {"Under Voltage", "Voltage Unbalance"} = {}
          /\ call.i_r + call.i_s + call.i_t = 0 =>
                Range(call.ret.issues) \cap {"Under Loading", "Over Loading",
                    "Current Unbalance", "Minor Current Unbalance"} = {}
          /\ call.fla = 0 =>
                Range(call.ret.issues) \cap {"Under Loading", "Over Loading"} = {}
    /\ IsReturned("acc_status") =>
          /\ ~call.ret.raised
          /\ call.b1 + call.b2 + call.b3 = 0 => call.ret.status = "Bearing OK"
    /\ IsReturned("check_hydraulic") =>
          /\ ~call.ret.raised
          /\ call.head_h = 0 => "Off-BEP Operation" \notin Range(call.ret.issues)
          /\ call.rated_rpm = 0 => "RPM Deviation" \notin Range(call.ret.issues)

\* diagnose_fault returned from h = v = a = 0
NoZeroDenominatorWitness ==
    /\ IsReturned("diagnose_fault")
    /\ call.sum_velocity = 0
    /\ call.ret.fault = "None"
    /\ ~call.ret.raised

\* 0 < average voltage < 0.9 * rated voltage
AverageBelow90 ==
    /\ call.v_r + call.v_s + call.v_t > 0
    /\ 10 * (call.v_r + call.v_s + call.v_t) < 27 * call.rated_voltage

\* C7: Under Voltage is flagged exactly when 0 < average < 0.9 * rated; with
\* 342, 380, 380 V on a 380 V motor it is not flagged and Voltage Unbalance is.
UnderVoltageFromAverage ==
    IsReturned("check_electrical") =>
        /\ ("Under Voltage" \in Range(call.ret.issues)) <=> AverageBelow90
        /\ (call.v_r = 342 /\ call.v_s = 380 /\ call.v_t = 380 /\ call.rated_voltage = 380)
              => /\ "Under Voltage" \notin Range(call.ret.issues)
                 /\ "Voltage Unbalance" \in Range(call.ret.issues)

\* one phase below 90 % of rated, the average above it
UnderVoltageFromAverageWitness ==
    /\ IsReturned("check_electrical")
    /\ call.v_r = 300 /\ call.v_s = 380 /\ call.v_t = 380 /\ call.rated_voltage = 380
    /\ "Under Voltage" \notin Range(call.ret.issues)
    /\ "Voltage Unbalance" \in Range(call.ret.issues)

\* 3 * the largest deviation of a phase from the average
PhaseDev(x, y, z) ==
    LET s == x + y + z
        d(p) == IF 3 * p >= s THEN 3 * p - s ELSE s - 3 * p
    IN  IF d(x) >= d(y) /\ d(x) >= d(z) THEN d(x)
        ELSE IF d(y) >= d(z) THEN d(y) ELSE d(z)

\* C8 as stated: every issue whose condition holds is in the composite status.
ElectricalAccumulatesAll ==
    IsReturned("check_electrical") =>
        LET sv == call.v_r + call.v_s + call.v_t
            si == call.i_r + call.i_s + call.i_t
            dv == PhaseDev(call.v_r, call.v_s, call.v_t)
            di == PhaseDev(call.i_r, call.i_s, call.i_t)
            issues == Range(call.ret.issues)
        IN  /\ AverageBelow90 => "Under Voltage" \in issues
            /\ (sv > 0 /\ 100 * dv > 1 * sv) => "Voltage Unbalance" \in issues
            /\ (call.fla > 0 /\ si > 0 /\ 100 * si < 120 * call.fla)
                  => "Under Loading" \in issues
            /\ (call.fla > 0 /\ si > 0 /\ si > 3 * call.fla) => "Over Loading" \in issues
            /\ (si > 0 /\ 100 * di > 10 * si) => "Current Unbalance" \in issues
            /\ (si > 0 /\ 100 * di > 5 * si /\ 100 * di <= 10 * si)
                  => "Minor Current Unbalance" \in issues

\* C9 as stated: both tiers are inclusive (minor from 5 %, major from 10 %).
CurrentUnbalanceInclusive ==
    IsReturned("check_electrical") =>
        LET si == call.i_r + call.i_s + call.i_t
            di == PhaseDev(call.i_r, call.i_s, call.i_t)
            issues == Range(call.ret.issues)
        IN  /\ (si > 0 /\ 100 * di >= 10 * si) => "Current Unbalance" \in issues
            /\ (si > 0 /\ 100 * di >= 5 * si /\ 100 * di < 10 * si)
                  => "Minor Current Unbalance" \in issues

\* C9 amended: both tiers are exclusive.  An unbalance above 10 % is major and
\* one between 5 % and 10 % is minor; nothing below 10 % is major and nothing
\* below 5 % or above 10 % is minor.  With a whole-number average (the sum of
\* the phases a multiple of 3, as for 90, 100, 110) an unbalance of exactly
\* 10 % is minor and one of exactly 5 % is not reported; otherwise the
\* rounding of the average decides the tier at exactly 5 % and 10 %.
CurrentUnbalanceExclusive ==
    IsReturned("check_electrical") =>
        LET si == call.i_r + call.i_s + call.i_t
            di == PhaseDev(call.i_r, call.i_s, call.i_t)
            issues == Range(call.ret.issues)
            major == "Current Unbalance" \in issues
            minor == "Minor Current Unbalance" \in issues
        IN  /\ (si > 0 /\ 100 * di > 10 * si) => major
            /\ major => (si > 0 /\ 100 * di >= 10 * si)
            /\ (si > 0 /\ 100 * di > 5 * si /\ 100 * di < 10 * si) => minor
            /\ minor => (si > 0 /\ 100 * di >= 5 * si /\ 100 * di <= 10 * si)
            /\ (si > 0 /\ si % 3 = 0 /\ 100 * di = 10 * si) => (minor /\ ~major)
            /\ (si > 0 /\ si % 3 = 0 /\ 100 * di = 5 * si) => (~minor /\ ~major)

\* currents 90, 100, 110: an unbalance of exactly 10 % is reported as minor
CurrentUnbalanceExclusiveWitness ==
    /\ IsReturned("check_electrical")
    /\ call.i_r = 90 /\ call.i_s = 100 /\ call.i_t = 110
    /\ "Minor Current Unbalance" \in Range(call.ret.issues)
    /\ "Current Unbalance" \notin Range(call.ret.issues)

\* C10 as stated: suction below 0.5 bar is flagged Critical Suction Pressure
\* for every discharge pressure.
CriticalSuctionIndependent ==
    (IsReturned("check_hydraulic") /\ call.suction_p < 2)
    => "Critical Suction Pressure" \in Range(call.ret.issues)

\* every reading widget is zero
AllReadingsZero ==
    /\ \A b \in BearingNames :
          /\ vib_data[b].h = 0 /\ vib_data[b].v = 0 /\ vib_data[b].a = 0
          /\ temp_data[b] = 0
          /\ acc_data[b].b1 = 0 /\ acc_data[b].b2 = 0 /\ acc_data[b].b3 = 0
    /\ v_r = 0 /\ v_s = 0 /\ v_t = 0
    /\ i_r = 0 /\ i_s = 0 /\ i_t = 0
    /\ suction_p = 0 /\ discharge_p = 0
    /\ flow_q = 0 /\ head_h = 0

\* C6 as stated: a run on all-zero readings finds no issue in any channel, its
\* issue list is empty and it raises no alarm.
AllZeroReadsAsNoData ==
    (conclusion # "not run" /\ AllReadingsZero) =>
        /\ \A b \in BearingNames :
              /\ verdicts.mech[b].severity_level = "normal"
              /\ verdicts.mech[b].fault = "None"
              /\ verdicts.mech[b].temp_level = "normal"
              /\ verdicts.acc[b] = "Bearing OK"
        /\ verdicts.elec.level = "normal"
        /\ verdicts.hyd.level = "normal"
        /\ final_report = <<>>
        /\ conclusion = "STATUS AMAN"

\* the zone the total alone would give
TotalZone(total) ==
    IF total >= ACC_LIMITS.Critical THEN "Bearing Damage"
    ELSE IF total >= ACC_LIMITS.Warning THEN "Early Bearing Fault"
    ELSE IF total >= ACC_LIMITS.Normal THEN "Warning"
    ELSE "Bearing OK"

\* b3 / total > 0.4, or b3 above 3.0 g
HighBandTrigger(b1, b2, b3) == 10 * b3 > 4 * (b1 + b2 + b3) \/ b3 > 6

\* C11: for every band triple with total > 0, a high band above 0.4 of the
\* total or above 3.0 g gives Early Bearing Fault or Bearing Damage, whatever
\* zone the total alone falls in; bands (1, 1, 3) give Early Bearing Fault.
HighBandSufficient ==
    IsReturned("acc_status") =>
        /\ (call.b1 + call.b2 + call.b3 > 0 /\ HighBandTrigger(call.b1, call.b2, call.b3))
              => call.ret.status \in {"Early Bearing Fault", "Bearing Damage"}
        /\ (call.b1 = 2 /\ call.b2 = 2 /\ call.b3 = 6)
              => call.ret.status = "Early Bearing Fault"

\* bands (0.5, 0.5, 1.0): the total 2.0 g alone is in the OK zone, the high
\* band is half of it, and the verdict is Early Bearing Fault
HighBandSufficientWitness ==
    /\ IsReturned("acc_status")
    /\ call.b1 = 1 /\ call.b2 = 1 /\ call.b3 = 2
    /\ TotalZone(call.b1 + call.b2 + call.b3) = "Bearing OK"
    /\ HighBandTrigger(call.b1, call.b2, call.b3)
    /\ call.ret.status = "Early Bearing Fault"

\* the RUN SAFETY DIAGNOSTIC button has been pressed on the readings shown
HasRun == conclusion # "not run"

\* the verdicts of the last run that are at level warning or critical
WarningBearings ==
    {b \in BearingNames :
        \/ verdicts.mech[b].severity_level \in {"warning", "critical"}
        \/ verdicts.mech[b].temp_level \in {"warning", "critical"}
        \/ verdicts.acc[b] # "Bearing OK"}

WarningChannels ==
    {c \in {"elec", "hyd"} : verdicts[c].level = "warning"}

\* C12 as stated: a run reports all-clear exactly when no bearing verdict
\* (vibration severity, temperature, acceleration status) and no channel
\* verdict (electrical, hydraulic) is at level warning or critical.
AllClearExactlyWhenNoWarning ==
    HasRun => (conclusion = "STATUS AMAN" <=> (WarningBearings = {} /\ WarningChannels = {}))

\* a channel of the last run reached the top tier: vibration in Zone D or
\* Trip Required, temperature Overheat, acceleration Bearing Damage, or a
\* suction pressure below 0.5 bar
TopTierReached ==
    \/ \E b \in BearingNames :
          \/ verdicts.mech[b].zone \in {"Zone D (Unacceptable)", "Trip Required"}
          \/ verdicts.mech[b].temp_stat = "Overheat"
          \/ verdicts.acc[b] = "Bearing Damage"
    \/ suction_p < 2

\* C13 as stated: the run concludes with the shutdown alert whenever a channel
\* reached the top tier, and with the scheduled-attention alert only when
\* issues exist and no channel reached the top tier.
ShutdownWheneverTopTier ==
    HasRun =>
        /\ TopTierReached => conclusion = "SHUTDOWN"
        /\ conclusion = "PERINGATAN" => (final_report # <<>> /\ ~TopTierReached)

\* the categories the verdicts of the last run show
DetectedCategories ==
    ({verdicts.mech[b].fault : b \in BearingNames} \ {"None"})
    \cup (IF \E b \in BearingNames : /\ verdicts.mech[b].severity_level = "critical"
                                      /\ verdicts.mech[b].fault = "None"
          THEN {"High Vibration"} ELSE {})
    \cup (IF \E b \in BearingNames : verdicts.acc[b] # "Bearing OK"
          THEN {"Bearing"} ELSE {})
    \cup (IF \E b \in BearingNames : verdicts.mech[b].temp_level \in {"warning", "critical"}
          THEN {"Temperature"} ELSE {})
    \cup (IF verdicts.elec.level = "warning" THEN {"Electrical"} ELSE {})
    \cup (IF verdicts.hyd.level = "warning" THEN {"Hydraulic"} ELSE {})

\* how many entries of seq equal x
Occurrences(seq, x) == Cardinality({k \in 1..Len(seq) : seq[k] = x})

\* C14: in a run with a non-empty issue list, the recommendation list holds
\* exactly one entry for each category detected in the run and none for any
\* other category, however many bearings or channels raised the category.
OneRecommendationPerCategory ==
    (HasRun /\ final_report # <<>>) =>
        /\ Range(recommendations_shown) = DetectedCategories
        /\ \A category \in DetectedCategories :
              Occurrences(recommendations_shown, category) = 1

\* two bearings raised Temperature and the list holds one Temperature entry
OneRecommendationPerCategoryWitness ==
    /\ HasRun
    /\ final_report # <<>>
    /\ Occurrences(detected_faults, "Temperature") = 2
    /\ Occurrences(recommendations_shown, "Temperature") = 1

\* the largest of the three directional readings of bearing b
LargestDirection(b) ==
    CHOOSE x \in {vib_data[b].h, vib_data[b].v, vib_data[b].a} :
        \A y \in {vib_data[b].h, vib_data[b].v, vib_data[b].a} : y <= x

\* the API 610 table applies to bearing b
UsesApiTable(b) ==
    b \in {"Pump DE (B3)", "Pump NDE (B4)"} /\ pump_standard = "API 610 / ISO 13709"

\* zone and level of the value, in halves of mm/s, on the table that applies
\* to bearing b, in tenths of mm/s
ExpectedSeverity(b, value) ==
    IF UsesApiTable(b)
    THEN LET k == LowestZone(<<API_610_LIMITS.Normal, API_610_LIMITS.Alert,
                               API_610_LIMITS.Trip>>, 5 * value)
         IN  [zone |-> ApiZones[k], level |-> ZoneLevels[k]]
    ELSE LET t == ISO_10816_THRESHOLDS[machine_group][foundation_type]
             k == LowestZone(<<t.A, t.B, t.C>>, 5 * value)
         IN  [zone |-> IsoZones[k], level |-> ZoneLevels[k]]

\* C15: the severity verdict of every bearing is the classification of
\* max(h, v, a), on the API 610 table for a pump bearing with the API 610
\* standard selected and on the ISO table of the selected machine group and
\* foundation otherwise; bearings on the same table with the same maximum
\* get the same verdict whatever their sums.
SeverityOnMaximum ==
    HasRun =>
        /\ \A b \in BearingNames :
              /\ verdicts.mech[b].zone = ExpectedSeverity(b, LargestDirection(b)).zone
              /\ verdicts.mech[b].severity_level
                    = ExpectedSeverity(b, LargestDirection(b)).level
        /\ \A b \in BearingNames, c \in BearingNames :
              (UsesApiTable(b) = UsesApiTable(c) /\ LargestDirection(b) = LargestDirection(c))
              => /\ verdicts.mech[b].zone = verdicts.mech[c].zone
                 /\ verdicts.mech[b].severity_level = verdicts.mech[c].severity_level

\* two bearings on one table with the same maximum and different sums, both
\* above the lowest zone on the maximum and in different zones on the sum
SeverityOnMaximumWitness ==
    /\ HasRun
    /\ \E b \in BearingNames, c \in BearingNames :
          /\ UsesApiTable(b) = UsesApiTable(c)
          /\ LargestDirection(b) = LargestDirection(c)
          /\ vib_data[b].sum_value # vib_data[c].sum_value
          /\ verdicts.mech[b].severity_level = "warning"
          /\ verdicts.mech[c].severity_level = "warning"
          /\ ExpectedSeverity(b, vib_data[b].sum_value).zone
                # ExpectedSeverity(c, vib_data[c].sum_value).zone

\* C16 as stated: get_iso_severity returns a verdict for every machine group
\* and foundation type, also for one that the threshold table does not have.
SeverityEvaluatorTotal ==
    IsReturned("get_iso_severity") =>
        /\ call.ret.raised = ""
        /\ call.ret.level \in {"normal", "warning", "critical"}

\* the label of the first pattern that h, v, a match, "None" if none does
ExpectedLabel(h, v, a) ==
    IF h + v + a = 0 THEN "None"
    ELSE IF 2 * a > h + v + a \/ (a > h /\ a > v /\ a > 4) THEN "Misalignment"
    ELSE IF /\ 10 * a < 3 * (h + v + a)
            /\ (20 * v > 7 * (h + v + a) \/ 20 * h > 7 * (h + v + a)) THEN "Unbalance"
    ELSE IF 2 * v > 3 * h /\ v > 4 THEN "Mechanical Looseness"
    ELSE "None"

PatternOf(b) == ExpectedLabel(vib_data[b].h, vib_data[b].v, vib_data[b].a)

\* C17 as stated: a bearing is pattern-matched on its h, v, a and sum exactly
\* when its vibration severity or its temperature level is warning or critical.
FaultGatedBySeverityOrTemperature ==
    HasRun =>
        \A b \in BearingNames :
            verdicts.mech[b].fault =
                IF \/ verdicts.mech[b].severity_level \in {"warning", "critical"}
                   \/ verdicts.mech[b].temp_level \in {"warning", "critical"}
                THEN PatternOf(b) ELSE "None"

\* C17 amended: a bearing is pattern-matched on its h, v, a and sum exactly
\* when its vibration severity is warning or critical; a bearing with normal
\* vibration severity gets no fault label, whatever its temperature level.
FaultGatedBySeverity ==
    HasRun =>
        \A b \in BearingNames :
            verdicts.mech[b].fault =
                IF verdicts.mech[b].severity_level \in {"warning", "critical"}
                THEN PatternOf(b) ELSE "None"

\* a bearing with normal severity, a warning or critical temperature and
\* readings that match a pattern, left without a fault label
FaultGatedBySeverityWitness ==
    /\ HasRun
    /\ \E b \in BearingNames :
          /\ verdicts.mech[b].severity_level = "normal"
          /\ verdicts.mech[b].temp_level \in {"warning", "critical"}
          /\ PatternOf(b) # "None"
          /\ verdicts.mech[b].fault = "None"

\* the issue list has an entry of bearing b with these words
Reported(b, labels) ==
    \E k \in 1..Len(final_report) :
        final_report[k].src = b /\ final_report[k].labels = labels

\* C18: in every run, every bearing whose vibration severity is critical has
\* an entry in the issue list, the matched fault label with its zone or
\* CRITICAL VIBRATION with its zone when no pattern matched, whatever its
\* temperature and whatever the other bearings and channels report.
CriticalVibrationReported ==
    HasRun =>
        \A b \in BearingNames :
            verdicts.mech[b].severity_level = "critical" =>
                Reported(b, <<IF PatternOf(b) # "None" THEN PatternOf(b)
                                                       ELSE "CRITICAL VIBRATION",
                              verdicts.mech[b].zone>>)

\* a bearing with critical severity, no matching pattern and a critical
\* temperature, reported as CRITICAL VIBRATION next to the issue of another
\* channel
CriticalVibrationReportedWitness ==
    /\ HasRun
    /\ Len(final_report) >= 2
    /\ \E b \in BearingNames :
          /\ verdicts.mech[b].severity_level = "critical"
          /\ verdicts.mech[b].temp_level = "critical"
          /\ PatternOf(b) = "None"
          /\ Reported(b, <<"CRITICAL VIBRATION", verdicts.mech[b].zone>>)

====
